---- MODULE Spec2Model ----
(***************************************************************************)
(* Timely: a to-do list server (src/src/main.rs), its hierarchy library    *)
(* (src/timely-lib/src/lib.rs) and its desktop client                      *)
(* (src/timely-app/src/main.rs).                                           *)
(*                                                                         *)
(* Spec          the HTTP API over the todos table; every SQL statement    *)
(*               is one atomic step, the handlers interleave at each await *)
(* LibSpec       timely_lib::build_hierarchy on bounded inputs             *)
(* AppBuildSpec  the desktop client's build_hierarchy, run twice           *)
(* AppSpec       the desktop client's App::update on SubmittedNewTodo      *)
(* AddSpec       the same update on any forest, whatever ids it carries    *)
(* ClientSpec    the desktop client against the server, calls in flight    *)
(* ApiSpec       the HTTP API request by request, with what each carried   *)
(***************************************************************************)
EXTENDS Integers, Sequences, FiniteSets, Bags, TLC

VARIABLES
    todos,      \* the todos table: id -> row
    nextId,     \* the serial sequence behind todos.id
    deleting,   \* bag of delete_todo handlers suspended at an await
    lastWrite,  \* history: the last data-modifying statement that ran
    resp,       \* the HTTP response the last step sent (or none)
    lib_in,     \* LibSpec: the argument of build_hierarchy
    lib_out,    \* LibSpec: its result
    ab_in,      \* AppBuildSpec: the argument of build_hierarchy
    ab_out1,    \* AppBuildSpec: result of the first run
    ab_out2,    \* AppBuildSpec: result of the second run
    app_state,  \* AppSpec: App.state, the variant of AppState
    app_form,   \* AppSpec: App.state, the parent_id held by AddingNewTodo
    app_todos,  \* AppSpec: App.todos
    app_msg,    \* AppSpec: history, the last message with a Result update() handled
    req,        \* ApiSpec: history, the request the last step served
    net         \* ClientSpec: bag of the client's calls in flight

serverVars == <<todos, nextId, deleting, lastWrite, resp>>
libVars    == <<lib_in, lib_out>>
abVars     == <<ab_in, ab_out1, ab_out2>>
appVars    == <<app_state, app_form, app_todos, app_msg>>
ioVars     == <<req, net>>
vars       == <<todos, nextId, deleting, lastWrite, resp, lib_in, lib_out,
                ab_in, ab_out1, ab_out2, app_state, app_form, app_todos, app_msg,
                req, net>>

----------------------------------------------------------------------------
(* Bounds *)

MaxId == 3        \* rows the serial sequence hands out; ids are 1..MaxId
MaxInflight == 2  \* delete_todo handlers suspended at the same time
MaxDate == 1      \* calendar dates are 1..MaxDate
MaxNodes == 4     \* todos the desktop client receives; their ids are 1..MaxNodes
MaxClientRows == 2  \* ClientSpec: ids the sequence hands out to the client's submits
MaxApiRows == 2   \* ApiSpec: ids the sequence hands out

----------------------------------------------------------------------------
(* Data: Option<T> is <<>> (None) or <<x>> (Some(x)) *)

None == <<>>
Some(x) == <<x>>

Ids == 1..MaxId
Dates == 1..MaxDate
Names == {"t"}
ParentOpt == {None} \cup {Some(p) : p \in Ids}
DateOpt == {None} \cup {Some(d) : d \in Dates}

\* struct Todo. description (Option<String>) is stored and returned but never
\* read by any statement or function modelled here; it is left out.
Todo(id, name, done, parent_id, date) ==
    [id |-> id, name |-> name, done |-> done, parent_id |-> parent_id, date |-> date]

----------------------------------------------------------------------------
(* Authentication *)

PASSWORD == "good"
PwOpt == {None, Some("good"), Some("bad")}

\* Sha256::digest(provided_pass).eq(original_hash); the digest is injective
\* on the passwords of the model.
authenticate(provided_pass) == provided_pass = PASSWORD

extract_provided(query, cookies) == IF query # None THEN query ELSE cookies

\* provided.is_some_and(|p| authenticate(&state.hashed_password, &p))
Authorized(query, cookies) ==
    LET provided == extract_provided(query, cookies)
    IN  provided # None /\ authenticate(provided[1])

----------------------------------------------------------------------------
(* Responses *)

Response(op, status, msg, rows, done) ==
    [op |-> op, status |-> status, msg |-> msg, rows |-> rows, done |-> done]

NoResp == Response("none", 0, "", <<>>, <<>>)
Unauthorized(op) == Response(op, 401, "Failed authentication", <<>>, <<>>)
\* internal_error(err): 500 with the error's text
internal_error(op, err) == Response(op, 500, err, <<>>, <<>>)

----------------------------------------------------------------------------
(* SQL *)

RECURSIVE OrderById(_)
OrderById(rows) ==
    IF rows = {} THEN <<>>
    ELSE LET m == CHOOSE r \in rows : \A s \in rows : r.id <= s.id
         IN  <<m>> \o OrderById(rows \ {m})

\* get_todos_inner: the four SELECT ... ORDER BY id branches. A comparison
\* with a NULL date is not true, so a row without date passes no filter.
get_todos_inner(t, date_less, date_more) ==
    LET all == {t[i] : i \in DOMAIN t}
        dated == {r \in all : r.date # None}
    IN  IF date_less = None /\ date_more = None THEN OrderById(all)
        ELSE IF date_less # None
             THEN OrderById({r \in dated : r.date[1] <= date_less[1]})
        ELSE IF date_more # None
             THEN OrderById({r \in dated : r.date[1] >= date_more[1]})
        ELSE OrderById({r \in dated : /\ date_more[1] <= r.date[1]
                                      /\ r.date[1] <= date_less[1]})

\* Mutant: the table has no constraint on parent_id.
parent_id_fkey_Unchecked(t) == TRUE

\* The todos table's constraint on parent_id. The table's definition is not
\* among the sources; by the data model parent_id references another task's
\* id and, when present, is the id of an existing task: a foreign key on
\* todos(id), checked at the end of every statement.
parent_id_fkey(t) ==
    \A i \in DOMAIN t : t[i].parent_id # None => t[i].parent_id[1] \in DOMAIN t

\* SELECT t.id FROM todos t INNER JOIN todo_hierarchy th ON t.parent_id = th.id
JoinChildren(t, th) ==
    {i \in DOMAIN t : t[i].parent_id # None /\ t[i].parent_id[1] \in th}

\* Mutant: the join is run once, only direct children are found.
DeleteHierarchy_OneLevel(t, result, working) == result \cup JoinChildren(t, working)

\* delete_todo's todo_hierarchy: WITH RECURSIVE ... UNION. The working table
\* holds the rows of the last round that are not yet in the result.
RECURSIVE DeleteHierarchy(_, _, _)
DeleteHierarchy(t, result, working) ==
    IF working = {} THEN result
    ELSE LET new == JoinChildren(t, working) \ result
         IN  DeleteHierarchy(t, result \cup new, new)

\* WITH RECURSIVE todo_hierarchy AS (...) DELETE FROM todos WHERE id IN (...)
\* A statement that would leave a row referencing a deleted one fails and
\* deletes nothing.
DeleteStatement(t, id) ==
    LET seed == {i \in DOMAIN t : i = id}
        hier == DeleteHierarchy(t, seed, seed)
        left == [i \in DOMAIN t \ hier |-> t[i]]
    IN  IF parent_id_fkey(left)
        THEN [outcome |-> "ok", todos |-> left, rows_affected |-> Cardinality(hier)]
        ELSE [outcome |-> "error", todos |-> t, rows_affected |-> 0]

\* Mutant: the join is run once, only direct children are found.
ToggleHierarchy_OneLevel(t, result, working, rounds) == [ids |-> working, ends |-> TRUE]

\* toggle_todo's todo_hierarchy: WITH RECURSIVE ... UNION ALL. No duplicate
\* elimination: the recursion ends only when a round joins no row. A round
\* that is non-empty after more rounds than there are rows is on a cycle and
\* the recursion never ends.
RECURSIVE ToggleHierarchy(_, _, _, _)
ToggleHierarchy(t, result, working, rounds) ==
    IF working = {} THEN [ids |-> result, ends |-> TRUE]
    ELSE IF rounds = 0 THEN [ids |-> result \cup working, ends |-> FALSE]
    ELSE ToggleHierarchy(t, result \cup working, JoinChildren(t, working), rounds - 1)

\* Mutant: every descendant is inverted on its own (SET done = NOT done).
ToggleStatement_InvertEach(t, id) ==
    LET hier == ToggleHierarchy(t, {}, JoinChildren(t, {id}), Cardinality(DOMAIN t))
    IN  IF ~hier.ends THEN [outcome |-> "diverges", todos |-> t, done |-> <<>>]
        ELSE IF id \notin DOMAIN t
             THEN [outcome |-> "error", todos |-> t, done |-> <<>>]
        ELSE [outcome |-> "ok",
              todos |-> [i \in DOMAIN t |->
                            IF i = id \/ i \in hier.ids
                            THEN [t[i] EXCEPT !.done = ~t[i].done]
                            ELSE t[i]],
              done |-> <<~t[id].done>>]

\* The toggle statement: updated_parent, todo_hierarchy, updated_children and
\* the final SELECT done FROM updated_parent, fetched with fetch_one.
\*   - no row with id = $1: updated_parent is empty, fetch_one fails with
\*     RowNotFound (and an UPDATE of children to a NULL done is rejected by
\*     the NOT NULL column the bool field requires): nothing is written.
ToggleStatement(t, id) ==
    LET hier == ToggleHierarchy(t, {}, JoinChildren(t, {id}), Cardinality(DOMAIN t))
    IN  IF ~hier.ends THEN [outcome |-> "diverges", todos |-> t, done |-> <<>>]
        ELSE IF id \notin DOMAIN t
             THEN [outcome |-> "error", todos |-> t, done |-> <<>>]
        ELSE LET new_done == ~t[id].done
             IN  [outcome |-> "ok",
                  todos |-> [i \in DOMAIN t |->
                                IF i = id \/ i \in hier.ids
                                THEN [t[i] EXCEPT !.done = new_done]
                                ELSE t[i]],
                  done |-> <<new_done>>]

\* INSERT INTO todos (name, description, parent_id, date) ... RETURNING ...
\* id comes from the serial sequence, done from the column default.
\* A row whose parent_id is the id of no row (the new row counts) is rejected.
InsertStatement(t, id, name, parent_id, date) ==
    LET row == Todo(id, name, FALSE, parent_id, date)
        new == [i \in DOMAIN t \cup {id} |-> IF i = id THEN row ELSE t[i]]
    IN  IF parent_id_fkey(new)
        THEN [outcome |-> "ok", todos |-> new, row |-> row]
        ELSE [outcome |-> "error", todos |-> t, row |-> row]

\* History record of a write: its statement, its $1, the subtree of $1 and
\* whether the table was a forest when it ran, and the done value it set.
Write(kind, id, sub, tree, done) ==
    [kind |-> kind, id |-> id, sub |-> sub, tree |-> tree, done |-> done]

\* History record of a message handled by App::update: the message and the
\* value of its Ok, if it is one
AppMsg(kind, todo) == [kind |-> kind, todo |-> todo]

\* History record of a request: the handler it went to, the password query
\* parameter and the auth cookie it carried, its JSON body (an id) and its
\* date query.
Request(op, query, cookies, id, date_less, date_more) ==
    [op |-> op, query |-> query, cookies |-> cookies, id |-> id,
     date_less |-> date_less, date_more |-> date_more]

NoReq == Request("none", None, None, 0, None, None)

----------------------------------------------------------------------------
(* The server: one action per handler step. A handler with one statement is *)
(* one step; delete_todo awaits three statements and is three steps.        *)

OtherSpecsIdle ==
    /\ lib_in = <<>> /\ lib_out = None
    /\ ab_in = <<>> /\ ab_out1 = None /\ ab_out2 = None
    /\ app_state = "Loading" /\ app_form = None /\ app_todos = <<>> /\ app_msg = AppMsg("none", None)
    /\ req = NoReq /\ net = EmptyBag

Init ==
    /\ todos = <<>>
    /\ nextId = 1
    /\ deleting = EmptyBag
    /\ lastWrite = Write("none", 0, {}, TRUE, <<>>)
    /\ resp = NoResp
    /\ OtherSpecsIdle

\* The subtree of row a, a included, read off the parent_id column upwards:
\* the rows from which a is reached by following parent_id. A missing row has
\* no subtree.
RECURSIVE ReachesUp(_, _, _, _)
ReachesUp(t, i, a, n) ==
    \/ i = a
    \/ /\ n > 0
       /\ i \in DOMAIN t
       /\ t[i].parent_id # None
       /\ ReachesUp(t, t[i].parent_id[1], a, n - 1)

Subtree(t, a) ==
    IF a \in DOMAIN t
    THEN {i \in DOMAIN t : ReachesUp(t, i, a, Cardinality(DOMAIN t))}
    ELSE {}

Acyclic(t) ==
    \A i \in DOMAIN t :
        t[i].parent_id # None => ~ReachesUp(t, t[i].parent_id[1], i, Cardinality(DOMAIN t))

\* GET /todos
get_todos(query, cookies, date_less, date_more) ==
    /\ resp' = IF Authorized(query, cookies)
               THEN Response("get_todos", 200, "", get_todos_inner(todos, date_less, date_more), <<>>)
               ELSE Unauthorized("get_todos")
    /\ UNCHANGED <<todos, nextId, deleting, lastWrite>>

\* POST /todos. payload.date arrives as text and is parsed before the
\* credentials are checked; date is the parsed value. The sequence hands out
\* an id to a rejected INSERT as well.
create_todo(query, cookies, name, parent_id, date) ==
    IF Authorized(query, cookies)
    THEN /\ nextId <= MaxId
         /\ LET ins == InsertStatement(todos, nextId, name, parent_id, date)
            IN  /\ todos' = ins.todos
                /\ resp' = IF ins.outcome = "ok"
                           THEN Response("create_todo", 200, "", <<ins.row>>, <<>>)
                           ELSE internal_error("create_todo", "ForeignKeyViolation")
                /\ lastWrite' = IF ins.outcome = "ok"
                                THEN Write("insert", nextId, {nextId}, Acyclic(todos), <<>>)
                                ELSE lastWrite
         /\ nextId' = nextId + 1
         /\ UNCHANGED deleting
    ELSE /\ resp' = Unauthorized("create_todo")
         /\ UNCHANGED <<todos, nextId, deleting, lastWrite>>

\* Mutant: the SELECT that ensures the target exists is left out.
delete_todo_NoSelect(query, cookies, id_to_delete) ==
    IF ~Authorized(query, cookies)
    THEN /\ resp' = Unauthorized("delete_todo")
         /\ UNCHANGED <<todos, nextId, deleting, lastWrite>>
    ELSE /\ BagCardinality(deleting) < MaxInflight
         /\ deleting' = deleting (+) SetToBag({[pc |-> "delete", id |-> id_to_delete,
                                                delete_successful |-> FALSE]})
         /\ resp' = NoResp
         /\ UNCHANGED <<todos, nextId, lastWrite>>

\* DELETE /todos, up to the first await: authentication and
\* SELECT * FROM todos WHERE id = $1, fetch_one. RowNotFound stands for the
\* text of sqlx::Error::RowNotFound.
delete_todo(query, cookies, id_to_delete) ==
    IF ~Authorized(query, cookies)
    THEN /\ resp' = Unauthorized("delete_todo")
         /\ UNCHANGED <<todos, nextId, deleting, lastWrite>>
    ELSE IF id_to_delete \notin DOMAIN todos
    THEN /\ resp' = internal_error("delete_todo", "RowNotFound")
         /\ UNCHANGED <<todos, nextId, deleting, lastWrite>>
    ELSE /\ BagCardinality(deleting) < MaxInflight
         /\ deleting' = deleting (+) SetToBag({[pc |-> "delete", id |-> todos[id_to_delete].id,
                                                delete_successful |-> FALSE]})
         /\ resp' = NoResp
         /\ UNCHANGED <<todos, nextId, lastWrite>>

\* delete_todo, second statement: the recursive DELETE.
\* .map(|res| res.rows_affected() > 0).unwrap_or(false)
delete_todo_delete(h) ==
    /\ BagIn(h, deleting)
    /\ h.pc = "delete"
    /\ LET del == DeleteStatement(todos, h.id)
       IN  /\ todos' = del.todos
           /\ deleting' = (deleting (-) SetToBag({h})) (+)
                          SetToBag({[h EXCEPT !.pc = "fetch",
                                              !.delete_successful =
                                                  (del.outcome = "ok" /\ del.rows_affected > 0)]})
    /\ lastWrite' = Write("delete", h.id, Subtree(todos, h.id), Acyclic(todos), <<>>)
    /\ resp' = NoResp
    /\ UNCHANGED nextId

\* delete_todo, third statement and the response: the list is fetched again
\* with the request's date query (read here for the first time, so drawn
\* here), then delete_successful decides.
delete_todo_fetch(h, date_less, date_more) ==
    /\ BagIn(h, deleting)
    /\ h.pc = "fetch"
    /\ deleting' = deleting (-) SetToBag({h})
    /\ LET new_todos == get_todos_inner(todos, date_less, date_more)
       IN  resp' = IF h.delete_successful
                   THEN Response("delete_todo", 200, "", new_todos, <<>>)
                   ELSE Response("delete_todo", 500, "Could not delete", <<>>, <<>>)
    /\ UNCHANGED <<todos, nextId, lastWrite>>

\* POST /todos/toggle: one statement. A recursion that never ends sends no
\* response and commits nothing.
toggle_todo(query, cookies, todo_id) ==
    IF ~Authorized(query, cookies)
    THEN /\ resp' = Unauthorized("toggle_todo")
         /\ UNCHANGED <<todos, nextId, deleting, lastWrite>>
    ELSE LET tog == ToggleStatement(todos, todo_id)
         IN  /\ todos' = tog.todos
             /\ resp' = CASE tog.outcome = "ok" ->
                               Response("toggle_todo", 200, "", <<>>, tog.done)
                          [] tog.outcome = "error" ->
                               internal_error("toggle_todo", "RowNotFound")
                          [] OTHER -> Response("toggle_todo", 0, "no response", <<>>, <<>>)
             /\ lastWrite' = IF tog.outcome = "ok"
                             THEN Write("toggle", todo_id, Subtree(todos, todo_id), Acyclic(todos), tog.done)
                             ELSE lastWrite
             /\ UNCHANGED <<nextId, deleting>>

\* A handler reads the credentials only through Authorized: one pair of
\* credentials for each of its outcomes reaches every behaviour of the server.
Credentials ==
    {CHOOSE cr \in PwOpt \X PwOpt : Authorized(cr[1], cr[2]) = a :
        a \in {Authorized(q, c) : q \in PwOpt, c \in PwOpt}}

GetTodos ==
    /\ \E cr \in Credentials, dl \in DateOpt, dm \in DateOpt :
          get_todos(cr[1], cr[2], dl, dm)
    /\ UNCHANGED <<libVars, abVars, appVars, ioVars>>

CreateTodo ==
    /\ \E cr \in Credentials, n \in Names, p \in ParentOpt, d \in DateOpt :
          create_todo(cr[1], cr[2], n, p, d)
    /\ UNCHANGED <<libVars, abVars, appVars, ioVars>>

DeleteTodo ==
    /\ \E cr \in Credentials, id \in Ids : delete_todo(cr[1], cr[2], id)
    /\ UNCHANGED <<libVars, abVars, appVars, ioVars>>

DeleteTodoDelete ==
    /\ \E h \in BagToSet(deleting) : delete_todo_delete(h)
    /\ UNCHANGED <<libVars, abVars, appVars, ioVars>>

DeleteTodoFetch ==
    /\ \E h \in BagToSet(deleting), dl \in DateOpt, dm \in DateOpt :
          delete_todo_fetch(h, dl, dm)
    /\ UNCHANGED <<libVars, abVars, appVars, ioVars>>

ToggleTodo ==
    /\ \E cr \in Credentials, id \in Ids : toggle_todo(cr[1], cr[2], id)
    /\ UNCHANGED <<libVars, abVars, appVars, ioVars>>

Next ==
    \/ GetTodos
    \/ CreateTodo
    \/ DeleteTodo
    \/ DeleteTodoDelete
    \/ DeleteTodoFetch
    \/ ToggleTodo

Spec == Init /\ [][Next]_vars

----------------------------------------------------------------------------
(* Claims about the server *)

\* The step is the recursive DELETE of handler h, which records ok.
IsDeleteStep(h, ok) ==
    /\ BagIn(h, deleting)
    /\ h.pc = "delete"
    /\ deleting' = (deleting (-) SetToBag({h})) (+)
                   SetToBag({[h EXCEPT !.pc = "fetch", !.delete_successful = ok]})

\* C1: on a table whose parent_id relation is acyclic, the DELETE statement of
\* delete_todo for a target in the table succeeds and removes exactly the
\* target and every row that reaches it through parent_id, at any depth; every
\* other row stays as it was.
C1_CascadeDeleteClosure ==
    [][\A h \in BagToSet(deleting) : \A ok \in BOOLEAN :
          (IsDeleteStep(h, ok) /\ Acyclic(todos) /\ h.id \in DOMAIN todos) =>
              /\ ok
              /\ DOMAIN todos' = DOMAIN todos \ Subtree(todos, h.id)
              /\ \A i \in DOMAIN todos' : todos'[i] = todos[i]]_vars

\* A delete has just removed a target with a descendant from a forest, its
\* handler is about to answer 200, and another row is still in the table.
C1_Witness ==
    /\ lastWrite.kind = "delete"
    /\ lastWrite.tree
    /\ Cardinality(lastWrite.sub) >= 2
    /\ DOMAIN todos # {}
    /\ \E h \in BagToSet(deleting) :
          h.pc = "fetch" /\ h.id = lastWrite.id /\ h.delete_successful

\* C2: on an acyclic table, toggle_todo of an existing id answers 200 with the
\* target's new done value, which is the inverse of the old one; every
\* descendant takes that value whatever it had; rows outside the subtree and
\* every other column stay as they were; and a second toggle of the same
\* target leaves the whole subtree at the target's original value.
C2_CascadeToggle ==
    [][(resp'.op = "toggle_todo" /\ Acyclic(todos)) =>
          /\ \A id \in DOMAIN todos :
                LET once == ToggleStatement(todos, id)
                    twice == ToggleStatement(once.todos, id)
                IN  /\ once.outcome = "ok"
                    /\ twice.outcome = "ok"
                    /\ \A i \in Subtree(todos, id) : twice.todos[i].done = todos[id].done
          /\ resp'.status = 200 =>
                LET id == lastWrite'.id
                    sub == Subtree(todos, id)
                IN  /\ id \in DOMAIN todos
                    /\ DOMAIN todos' = DOMAIN todos
                    /\ todos'[id].done = ~todos[id].done
                    /\ resp'.done = <<todos'[id].done>>
                    /\ \A i \in sub : todos'[i] = [todos[i] EXCEPT !.done = todos'[id].done]
                    /\ \A i \in DOMAIN todos \ sub : todos'[i] = todos[i]]_vars

\* A toggle has just answered true for a target whose subtree of three rows
\* in a forest is now all done.
C2_Witness ==
    /\ resp.op = "toggle_todo" /\ resp.status = 200 /\ resp.done = <<TRUE>>
    /\ lastWrite.kind = "toggle" /\ lastWrite.tree
    /\ Cardinality(lastWrite.sub) >= 3
    /\ \A i \in lastWrite.sub : todos[i].done

\* C3: a list returned by GET /todos (or by the re-fetch of delete_todo),
\* however the handlers interleave, never shows a cascade half done: after a
\* cascading delete no row of the deleted subtree is listed, and after a
\* cascading toggle every listed row of the subtree has the target's new value.
C3_ReadNeverPartial ==
    (resp.status = 200 /\ resp.op \in {"get_todos", "delete_todo"}) =>
        \A k \in DOMAIN resp.rows :
            /\ lastWrite.kind = "delete" => resp.rows[k].id \notin lastWrite.sub
            /\ lastWrite.kind = "toggle" =>
                  (resp.rows[k].id \in lastWrite.sub => resp.rows[k].done = lastWrite.done[1])

\* GET /todos answers with the rows of a subtree that a toggle has just
\* cascaded through, while a delete_todo handler is suspended before its
\* DELETE and another after it.
C3_Witness ==
    /\ resp.op = "get_todos" /\ resp.status = 200
    /\ lastWrite.kind = "toggle"
    /\ Cardinality(lastWrite.sub) >= 2
    /\ lastWrite.sub \subseteq {resp.rows[k].id : k \in DOMAIN resp.rows}
    /\ \E h \in BagToSet(deleting) : h.pc = "delete"
    /\ \E h \in BagToSet(deleting) : h.pc = "fetch"

----------------------------------------------------------------------------
(* timely-lib: build_hierarchy over an IndexMap *)

\* Vec::reverse
RECURSIVE Reverse(_)
Reverse(v) == IF v = <<>> THEN <<>> ELSE Append(Reverse(Tail(v)), Head(v))

\* convert_date_to_string: format!("{}-{}-{}", year, month, day). A date of
\* the model is a day number; its text is the number's decimal text.
convert_date_to_string(date) == ToString(date)

\* The TodoHierarchy literal of build_hierarchy (and TodoHierarchy::new)
LibHierarchy(todo) ==
    [todo |-> todo,
     todo_date |-> IF todo.date # None THEN Some(convert_date_to_string(todo.date[1])) ELSE None,
     children |-> <<>>]

\* IndexMap<i64, TodoHierarchy>: a sequence of entries in insertion order.
IndexOfKey(map, key) ==
    IF \E k \in DOMAIN map : map[k].key = key
    THEN CHOOSE k \in DOMAIN map : map[k].key = key
    ELSE 0

\* IndexMap::insert: a key already present keeps its place and takes the value
IndexMapInsert(map, key, value) ==
    LET k == IndexOfKey(map, key)
    IN  IF k = 0 THEN Append(map, [key |-> key, value |-> value])
        ELSE [map EXCEPT ![k].value = value]

\* IndexMap::swap_remove: the last entry takes the place of the removed one
IndexMapSwapRemove(map, key) ==
    LET k == IndexOfKey(map, key)
        n == Len(map)
    IN  IF k = 0 THEN map
        ELSE IF k = n THEN SubSeq(map, 1, n - 1)
        ELSE [j \in 1..(n - 1) |-> IF j = k THEN map[n] ELSE map[j]]

\* build_hierarchy, first loop: for todo in list { todo_map.insert(id, ..) }
RECURSIVE LibInsertAll(_, _)
LibInsertAll(todo_map, list) ==
    IF list = <<>> THEN todo_map
    ELSE LibInsertAll(IndexMapInsert(todo_map, Head(list).id, LibHierarchy(Head(list))),
                      Tail(list))

\* build_hierarchy, second loop: for id in todo_ids { swap_remove, then push
\* to the parent still in the map, or to root_todos when there is no
\* parent_id; a hierarchy whose parent_id is not in the map is pushed nowhere }
RECURSIVE LibAttach(_, _, _)
LibAttach(todo_map, root_todos, todo_ids) ==
    IF todo_ids = <<>> THEN root_todos
    ELSE LET id == Head(todo_ids)
             k == IndexOfKey(todo_map, id)
         IN  IF k = 0 THEN LibAttach(todo_map, root_todos, Tail(todo_ids))
             ELSE LET hierarchy == todo_map[k].value
                      removed == IndexMapSwapRemove(todo_map, id)
                  IN  IF hierarchy.todo.parent_id # None
                      THEN LET p == IndexOfKey(removed, hierarchy.todo.parent_id[1])
                           IN  IF p # 0
                               THEN LibAttach(
                                      [removed EXCEPT ![p].value.children = Append(@, hierarchy)],
                                      root_todos, Tail(todo_ids))
                               ELSE LibAttach(removed, root_todos, Tail(todo_ids))
                      ELSE LibAttach(removed, Append(root_todos, hierarchy), Tail(todo_ids))

\* Mutant: root_todos.reverse() is left out.
build_hierarchy_NoFinalReverse(list) ==
    LET todo_map == LibInsertAll(<<>>, Reverse(list))
        todo_ids == [k \in DOMAIN todo_map |-> todo_map[k].key]
    IN  LibAttach(todo_map, <<>>, todo_ids)

\* timely_lib::build_hierarchy
build_hierarchy(list) ==
    LET todo_map == LibInsertAll(<<>>, Reverse(list))
        todo_ids == [k \in DOMAIN todo_map |-> todo_map[k].key]
    IN  Reverse(LibAttach(todo_map, <<>>, todo_ids))

----------------------------------------------------------------------------
(* Inputs of the hierarchy builders: every sequence of todos with distinct   *)
(* ids of Ids, in every order, with every parent_id, with and without a     *)
(* date. done is not read by the builders and is that of a fresh row.       *)

IdSeqs ==
    {s \in UNION {[1..n -> Ids] : n \in 0..MaxId} :
        \A j, k \in DOMAIN s : j # k => s[j] # s[k]}

Attributes(ids) == [DOMAIN ids -> ParentOpt \X {None, Some(1)}]

TodoList(ids, a) == [k \in DOMAIN ids |-> Todo(ids[k], "t", FALSE, a[k][1], a[k][2])]

LibInit ==
    /\ \E ids \in IdSeqs : \E a \in Attributes(ids) : lib_in = TodoList(ids, a)
    /\ lib_out = None
    /\ todos = <<>> /\ nextId = 1 /\ deleting = EmptyBag
    /\ lastWrite = Write("none", 0, {}, TRUE, <<>>) /\ resp = NoResp
    /\ ab_in = <<>> /\ ab_out1 = None /\ ab_out2 = None
    /\ app_state = "Loading" /\ app_form = None /\ app_todos = <<>> /\ app_msg = AppMsg("none", None)
    /\ req = NoReq /\ net = EmptyBag

\* web_index: let hierarchy = build_hierarchy(ok_todos)
LibBuild ==
    /\ lib_out = None
    /\ lib_out' = Some(build_hierarchy(lib_in))
    /\ UNCHANGED <<lib_in, serverVars, abVars, appVars, ioVars>>

LibNext == LibBuild

LibSpec == LibInit /\ [][LibNext]_vars

----------------------------------------------------------------------------
(* Claims about timely-lib's build_hierarchy *)

IdsOfList(list) == {list[k].id : k \in DOMAIN list}
RowOfList(list, id) == list[CHOOSE k \in DOMAIN list : list[k].id = id]
AsTable(list) == [i \in IdsOfList(list) |-> RowOfList(list, i)]

\* every node of a forest, at any depth
RECURSIVE NodesOf(_)
NodesOf(forest) ==
    UNION {{forest[k]} \cup NodesOf(forest[k].children) : k \in DOMAIN forest}

TodosOf(forest) == [k \in DOMAIN forest |-> forest[k].todo]
IsParentless(todo) == todo.parent_id = None

\* C4: for an input with distinct ids and an acyclic parent_id relation, in
\* any order, the children of every node of the forest are exactly the input
\* todos whose parent_id is the node's id.
C4_TreeShape ==
    (lib_out # None /\ Acyclic(AsTable(lib_in))) =>
        \A node \in NodesOf(lib_out[1]) :
            {node.children[k].todo : k \in DOMAIN node.children} =
            {lib_in[k] : k \in {j \in DOMAIN lib_in :
                                  lib_in[j].parent_id = Some(node.todo.id)}}

\* C5: every input todo whose parent_id names no id of the input is a root of
\* the forest.
C5_OrphanIsRoot ==
    lib_out # None =>
        \A k \in DOMAIN lib_in :
            (lib_in[k].parent_id # None /\ lib_in[k].parent_id[1] \notin IdsOfList(lib_in)) =>
                \E r \in DOMAIN lib_out[1] : lib_out[1][r].todo = lib_in[k]

ParentsFirst(list) ==
    \A k \in DOMAIN list :
        list[k].parent_id # None =>
            \A j \in DOMAIN list : list[j].id = list[k].parent_id[1] => j < k

\* C6: for an input in which every parent precedes its children, the
\* children list of every node holds its children in their input order.
C6_ChildrenInInputOrder ==
    (lib_out # None /\ ParentsFirst(lib_in)) =>
        \A node \in NodesOf(lib_out[1]) :
            \A a, b \in DOMAIN node.children :
                a < b =>
                    \A j, k \in DOMAIN lib_in :
                        (lib_in[j] = node.children[a].todo /\ lib_in[k] = node.children[b].todo)
                            => j < k

\* C7: the todos without parent_id are in the roots list in their input order.
C7_RootsInInputOrder ==
    lib_out # None =>
        SelectSeq(TodosOf(lib_out[1]), IsParentless) = SelectSeq(lib_in, IsParentless)

\* A forest has been built from an input whose two parentless todos come in
\* descending id order with a child of the second between them.
C7_Witness ==
    /\ lib_out # None
    /\ Len(lib_in) = 3
    /\ IsParentless(lib_in[1]) /\ IsParentless(lib_in[3])
    /\ lib_in[1].id > lib_in[3].id
    /\ lib_in[2].parent_id = Some(lib_in[1].id)
    /\ Len(lib_out[1]) = 2

----------------------------------------------------------------------------
(* timely-app: build_hierarchy over a HashMap *)

\* The TodoHierarchy literal of the client (and TodoHierarchy::new)
AppHierarchy(todo) == [todo |-> todo, children |-> <<>>]

\* Step 1: for todo in todos { todo_map.insert(id, ..) }
RECURSIVE AppInsertAll(_, _)
AppInsertAll(todo_map, list) ==
    IF list = <<>> THEN todo_map
    ELSE LET id == Head(list).id
         IN  AppInsertAll([i \in DOMAIN todo_map \cup {id} |->
                              IF i = id THEN AppHierarchy(Head(list)) ELSE todo_map[i]],
                          Tail(list))

\* The orders in which a HashMap with these keys can be iterated: the hasher
\* is seeded at random, every order of the keys can come out.
IterationOrders(keys) ==
    {o \in [1..Cardinality(keys) -> keys] : \A j, k \in DOMAIN o : j # k => o[j] # o[k]}

\* Step 2: for (id, hierarchy) in todo_map.clone(), in iteration order. The
\* hierarchy pushed to the parent is the one of the clone, whose children are
\* empty; root_todos is pushed to and never read.
RECURSIVE AppAttach(_, _, _)
AppAttach(clone, todo_map, order) ==
    IF order = <<>> THEN todo_map
    ELSE LET id == Head(order)
             hierarchy == clone[id]
         IN  IF hierarchy.todo.parent_id # None
             THEN LET parent_id == hierarchy.todo.parent_id[1]
                  IN  IF parent_id \in DOMAIN todo_map
                      THEN LET pushed == [todo_map EXCEPT
                                            ![parent_id].children = Append(@, hierarchy)]
                           IN  AppAttach(clone,
                                         [i \in DOMAIN pushed \ {id} |-> pushed[i]],
                                         Tail(order))
                      ELSE AppAttach(clone, todo_map, Tail(order))
             ELSE AppAttach(clone, todo_map, Tail(order))

\* hierarchies.sort_by(|a, b| a.todo.id.cmp(&b.todo.id)): a stable sort
RECURSIVE SortById(_)
SortById(v) ==
    IF v = <<>> THEN <<>>
    ELSE LET n == Len(v)
             rest == SortById(SubSeq(v, 1, n - 1))
             k == Cardinality({j \in DOMAIN rest : rest[j].todo.id <= v[n].todo.id})
         IN  SubSeq(rest, 1, k) \o <<v[n]>> \o SubSeq(rest, k + 1, n - 1)

RECURSIVE sort_hierarchy_by_id(_)
sort_hierarchy_by_id(hierarchies) ==
    LET sorted == SortById(hierarchies)
    IN  [k \in DOMAIN sorted |->
            [sorted[k] EXCEPT !.children = sort_hierarchy_by_id(@)]]

\* The client's build_hierarchy; order is the iteration order of the HashMap.
app_build_hierarchy(list, order) ==
    LET todo_map == AppInsertAll(<<>>, list)
        built == AppAttach(todo_map, todo_map, order)
        left == SelectSeq(order, LAMBDA id : id \in DOMAIN built)
        hierarchy_vec == [k \in DOMAIN left |-> built[left[k]]]
    IN  sort_hierarchy_by_id(hierarchy_vec)

\* The inputs are the lists whose parent_id relation is acyclic, as the rows
\* of the store are meant to be.
ABInit ==
    /\ \E ids \in IdSeqs : \E a \in Attributes(ids) : ab_in = TodoList(ids, a)
    /\ Acyclic(AsTable(ab_in))
    /\ ab_out1 = None
    /\ ab_out2 = None
    /\ todos = <<>> /\ nextId = 1 /\ deleting = EmptyBag
    /\ lastWrite = Write("none", 0, {}, TRUE, <<>>) /\ resp = NoResp
    /\ lib_in = <<>> /\ lib_out = None
    /\ app_state = "Loading" /\ app_form = None /\ app_todos = <<>> /\ app_msg = AppMsg("none", None)
    /\ req = NoReq /\ net = EmptyBag

\* Message::Loaded(Ok(todos)): build_hierarchy(todos), a first time
AppBuildRun1 ==
    /\ ab_out1 = None
    /\ \E order \in IterationOrders(IdsOfList(ab_in)) :
          ab_out1' = Some(app_build_hierarchy(ab_in, order))
    /\ UNCHANGED <<ab_in, ab_out2, serverVars, libVars, appVars, ioVars>>

\* the same call on the same input, a second time
AppBuildRun2 ==
    /\ ab_out2 = None
    /\ \E order \in IterationOrders(IdsOfList(ab_in)) :
          ab_out2' = Some(app_build_hierarchy(ab_in, order))
    /\ UNCHANGED <<ab_in, ab_out1, serverVars, libVars, appVars, ioVars>>

ABNext == AppBuildRun1 \/ AppBuildRun2

AppBuildSpec == ABInit /\ [][ABNext]_vars

----------------------------------------------------------------------------
(* Claims about the client's build_hierarchy *)

\* depth-first traversal of a forest
RECURSIVE Flatten(_)
Flatten(forest) ==
    IF forest = <<>> THEN <<>>
    ELSE <<Head(forest).todo>> \o Flatten(Head(forest).children) \o Flatten(Tail(forest))

\* C8: for an input with distinct ids and an acyclic parent_id relation of any
\* depth, the depth-first flattening of the forest holds every input todo
\* once and nothing else.
C8_RoundTrip ==
    (ab_out1 # None /\ Acyclic(AsTable(ab_in))) =>
        LET flat == Flatten(ab_out1[1])
        IN  /\ Len(flat) = Len(ab_in)
            /\ {flat[k] : k \in DOMAIN flat} = {ab_in[k] : k \in DOMAIN ab_in}

\* C9: two runs on the same input return the same forest, whatever the
\* iteration order of the hash map.
C9_Deterministic ==
    (ab_out1 # None /\ ab_out2 # None) => ab_out1 = ab_out2

----------------------------------------------------------------------------
(* timely-app: App::update and add_to_hierarchy *)

AppIds == 1..MaxNodes
AppParentOpt == {None} \cup {Some(p) : p \in AppIds}

\* Option::unwrap_or
unwrap_or(opt, default) == IF opt = None THEN default ELSE opt[1]

\* Mutant: the new node is put in front of the parent's children.
RECURSIVE try_add_to_hierarchy_Front(_, _)
try_add_to_hierarchy_Front(hierarchy, todo) ==
    IF hierarchy = <<>> THEN [added |-> FALSE, hierarchy |-> <<>>]
    ELSE LET sub_hierarchy == Head(hierarchy)
         IN  IF sub_hierarchy.todo.id = unwrap_or(todo.parent_id, -1)
             THEN [added |-> TRUE,
                   hierarchy |-> <<[sub_hierarchy EXCEPT
                                      !.children = <<AppHierarchy(todo)>> \o @]>>
                                 \o Tail(hierarchy)]
             ELSE LET inner == try_add_to_hierarchy_Front(sub_hierarchy.children, todo)
                  IN  IF inner.added
                      THEN [added |-> TRUE,
                            hierarchy |-> <<[sub_hierarchy EXCEPT !.children = inner.hierarchy]>>
                                          \o Tail(hierarchy)]
                      ELSE LET rest == try_add_to_hierarchy_Front(Tail(hierarchy), todo)
                           IN  [added |-> rest.added,
                                hierarchy |-> <<sub_hierarchy>> \o rest.hierarchy]

\* fn try_add_to_hierarchy: the first node in depth-first order whose id is
\* todo.parent_id.unwrap_or(-1) gets the new node pushed to its children.
RECURSIVE try_add_to_hierarchy(_, _)
try_add_to_hierarchy(hierarchy, todo) ==
    IF hierarchy = <<>> THEN [added |-> FALSE, hierarchy |-> <<>>]
    ELSE LET sub_hierarchy == Head(hierarchy)
         IN  IF sub_hierarchy.todo.id = unwrap_or(todo.parent_id, -1)
             THEN [added |-> TRUE,
                   hierarchy |-> <<[sub_hierarchy EXCEPT
                                      !.children = Append(@, AppHierarchy(todo))]>>
                                 \o Tail(hierarchy)]
             ELSE LET inner == try_add_to_hierarchy(sub_hierarchy.children, todo)
                  IN  IF inner.added
                      THEN [added |-> TRUE,
                            hierarchy |-> <<[sub_hierarchy EXCEPT !.children = inner.hierarchy]>>
                                          \o Tail(hierarchy)]
                      ELSE LET rest == try_add_to_hierarchy(Tail(hierarchy), todo)
                           IN  [added |-> rest.added,
                                hierarchy |-> <<sub_hierarchy>> \o rest.hierarchy]

\* pub fn add_to_hierarchy
add_to_hierarchy(hierarchy, todo) ==
    LET tried == try_add_to_hierarchy(hierarchy, todo)
    IN  IF ~tried.added THEN Append(hierarchy, AppHierarchy(todo))
        ELSE tried.hierarchy

AppInit ==
    /\ app_state = "Loading"
    /\ app_form = None
    /\ app_todos = <<>>
    /\ app_msg = AppMsg("none", None)
    /\ todos = <<>> /\ nextId = 1 /\ deleting = EmptyBag
    /\ lastWrite = Write("none", 0, {}, TRUE, <<>>) /\ resp = NoResp
    /\ lib_in = <<>> /\ lib_out = None
    /\ ab_in = <<>> /\ ab_out1 = None /\ ab_out2 = None
    /\ req = NoReq /\ net = EmptyBag

\* Message::SubmittedNewTodo(todo): nothing is done with an Err
SubmittedNewTodo(todo) ==
    IF todo.ok
    THEN /\ app_todos' = add_to_hierarchy(app_todos, todo.todo)
         /\ app_state' = "Loaded"
         /\ app_form' = None
    ELSE UNCHANGED <<app_todos, app_state, app_form>>

\* update(Message::SubmittedNewTodo(todo)) on its own, with its history record
UpdateSubmittedNewTodo(todo) ==
    /\ SubmittedNewTodo(todo)
    /\ app_msg' = AppMsg("SubmittedNewTodo", IF todo.ok THEN Some(todo.todo) ELSE None)
    /\ UNCHANGED <<serverVars, libVars, abVars, ioVars>>

\* The row the server returns for a created todo: its id is fresh from the
\* serial sequence, greater than the id of every row created before it; it
\* has no date, the client's TodoToSend has no date field.
SubmittedNewTodoOk ==
    \E id \in AppIds, p \in AppParentOpt :
        /\ \A i \in IdsOfList(Flatten(app_todos)) : i < id
        /\ UpdateSubmittedNewTodo([ok |-> TRUE, todo |-> Todo(id, "t", FALSE, p, None)])

SubmittedNewTodoErr ==
    UpdateSubmittedNewTodo([ok |-> FALSE, todo |-> Todo(0, "", FALSE, None, None)])

AppNext == SubmittedNewTodoOk \/ SubmittedNewTodoErr

AppSpec == AppInit /\ [][AppNext]_vars

----------------------------------------------------------------------------
(* Claims about the client's add_to_hierarchy *)

\* every node of a forest with its position: the child indexes from the roots
RECURSIVE Positions(_, _)
Positions(forest, prefix) ==
    UNION {{[path |-> Append(prefix, k), todo |-> forest[k].todo]}
           \cup Positions(forest[k].children, Append(prefix, k)) : k \in DOMAIN forest}

ChildrenAt(positions, path) ==
    {q \in positions : Len(q.path) = Len(path) + 1 /\ SubSeq(q.path, 1, Len(path)) = path}

\* C10: when update() handles SubmittedNewTodo(Ok(todo)) and todo.parent_id is
\* the id of a node of the forest, the forest afterwards is the forest before
\* with one more node: todo, without children, as the last child of that node.
\* Every node that was there keeps its todo and its position.
C10_InsertUnderParent ==
    [][(/\ app_msg'.kind = "SubmittedNewTodo"
        /\ app_msg'.todo # None
        /\ app_msg'.todo[1].parent_id # None
        /\ app_msg'.todo[1].parent_id[1] \in IdsOfList(Flatten(app_todos))) =>
          LET todo == app_msg'.todo[1]
              before == Positions(app_todos, <<>>)
              parent == CHOOSE q \in before : q.todo.id = todo.parent_id[1]
              last == Cardinality(ChildrenAt(before, parent.path)) + 1
          IN  /\ Positions(app_todos', <<>>) =
                    before \cup {[path |-> Append(parent.path, last), todo |-> todo]}
              /\ Len(app_todos') = Len(app_todos)]_vars

\* The forest is 1 -> 2 -> {3, 4}: todo 4 has just been inserted under node 2,
\* after its child 3.
C10_Witness ==
    /\ app_msg.kind = "SubmittedNewTodo"
    /\ app_msg.todo # None
    /\ app_msg.todo[1].id = 4
    /\ app_msg.todo[1].parent_id = Some(2)
    /\ Len(app_todos) = 1
    /\ app_todos[1].todo.id = 1
    /\ Len(app_todos[1].children) = 1
    /\ app_todos[1].children[1].todo.id = 2
    /\ Len(app_todos[1].children[1].children) = 2
    /\ app_todos[1].children[1].children[1].todo.id = 3
    /\ app_todos[1].children[1].children[2].todo.id = 4

----------------------------------------------------------------------------
(* add_to_hierarchy on any forest: Todo.id is an i64 and the client takes   *)
(* the rows as the server's JSON gives them, so a node can carry any id,    *)
(* -1 included.                                                             *)

AddIds == {-1} \cup (1..(MaxNodes - 2))
AddParentOpt == {None} \cup {Some(p) : p \in AddIds \cup {MaxNodes}}

\* The forest of a table: under parent, the rows whose parent_id is parent, by
\* id, each with the forest under it (n bounds the depth).
RECURSIVE ForestUnder(_, _, _)
ForestUnder(t, parent, n) ==
    LET rows == OrderById({t[i] : i \in {j \in DOMAIN t : t[j].parent_id = parent}})
    IN  [k \in DOMAIN rows |->
            [todo |-> rows[k],
             children |-> IF n = 0 THEN <<>>
                          ELSE ForestUnder(t, Some(rows[k].id), n - 1)]]

\* self.todos when the message arrives: any forest over AddIds
AddInit ==
    /\ \E S \in SUBSET AddIds :
          \E par \in [S -> {None} \cup {Some(p) : p \in S}] :
             LET t == [i \in S |-> Todo(i, "t", FALSE, par[i], None)]
             IN  /\ Acyclic(t)
                 /\ app_todos = ForestUnder(t, None, Cardinality(S))
    /\ app_state = "Loaded"
    /\ app_form = None
    /\ app_msg = AppMsg("none", None)
    /\ todos = <<>> /\ nextId = 1 /\ deleting = EmptyBag
    /\ lastWrite = Write("none", 0, {}, TRUE, <<>>) /\ resp = NoResp
    /\ lib_in = <<>> /\ lib_out = None
    /\ ab_in = <<>> /\ ab_out1 = None /\ ab_out2 = None
    /\ req = NoReq /\ net = EmptyBag

\* Message::SubmittedNewTodo(Ok(todo)) for a todo that is not in the forest,
\* with no parent_id, with the id of a node, or with an id of no node
AddSubmittedOk ==
    \E p \in AddParentOpt :
        /\ (MaxNodes - 1) \notin IdsOfList(Flatten(app_todos))
        /\ UpdateSubmittedNewTodo([ok |-> TRUE, todo |-> Todo(MaxNodes - 1, "t", FALSE, p, None)])

AddNext == AddSubmittedOk \/ SubmittedNewTodoErr

AddSpec == AddInit /\ [][AddNext]_vars

\* C11: when update() handles SubmittedNewTodo(Ok(todo)) and todo.parent_id is
\* absent or is the id of no node of the forest, whatever ids the nodes carry,
\* the forest afterwards is the forest before with todo appended to the roots
\* as a childless node; no children list changes.
C11_InsertFallbackToRoot ==
    [][(/\ app_msg'.kind = "SubmittedNewTodo"
        /\ app_msg'.todo # None
        /\ \/ app_msg'.todo[1].parent_id = None
           \/ app_msg'.todo[1].parent_id[1] \notin IdsOfList(Flatten(app_todos))) =>
          app_todos' = Append(app_todos, AppHierarchy(app_msg'.todo[1]))]_vars

----------------------------------------------------------------------------
(* The desktop client against the server. Every Command::perform of update() *)
(* is a call in net: sent, then served by its handler (delete_todo in its    *)
(* three steps), then back with the handler's response, then handled by      *)
(* update() as the message the call was given. Calls are served and          *)
(* delivered in any order. The settings screen (LoadScreenSettings,          *)
(* ChangeUrl, SaveSettings) sends no call and touches no todo and is left    *)
(* out.                                                                      *)

Call(kind, id, parent_id, stage, ok, rows, done) ==
    [kind |-> kind, id |-> id, parent_id |-> parent_id, stage |-> stage,
     ok |-> ok, rows |-> rows, done |-> done]

\* a call as Command::perform starts it
Sent(kind, id, parent_id) == Call(kind, id, parent_id, "sent", FALSE, <<>>, None)

\* load, submit_new_todo, delete_todo, toggle_todo of the client:
\* .send().await?.json().await? is Ok for a 200 with its JSON body and Err
\* for the text body of a 401 or a 500.
Back(m, r) ==
    IF r.status = 200
    THEN [m EXCEPT !.stage = "back", !.ok = TRUE, !.rows = r.rows, !.done = r.done]
    ELSE [m EXCEPT !.stage = "back", !.ok = FALSE]

Replace(bag, m, n) == (bag (-) SetToBag({m})) (+) SetToBag({n})

\* Mutant: only the node itself is set.
toggle_with_children_NodeOnly(node, state) == [node EXCEPT !.todo.done = state]

\* TodoHierarchy::toggle_with_children
RECURSIVE toggle_with_children(_, _)
toggle_with_children(node, state) ==
    [todo |-> [node.todo EXCEPT !.done = state],
     children |-> [k \in DOMAIN node.children |->
                      toggle_with_children(node.children[k], state)]]

\* TodoHierarchy::get_hierarchy_by_id: the first node with this id in
\* depth-first order. The &mut it returns is the path of child indexes to the
\* node; FindFrom is the for loop from the k-th hierarchy on.
RECURSIVE get_hierarchy_by_id(_, _), FindFrom(_, _, _)
FindFrom(hierarchies, id, k) ==
    IF k > Len(hierarchies) THEN None
    ELSE IF hierarchies[k].todo.id = id THEN Some(<<k>>)
    ELSE LET found == get_hierarchy_by_id(hierarchies[k].children, id)
         IN  IF found # None THEN Some(<<k>> \o found[1])
             ELSE FindFrom(hierarchies, id, k + 1)

get_hierarchy_by_id(hierarchies, id) == FindFrom(hierarchies, id, 1)

\* todo.toggle_with_children(state) through the &mut
RECURSIVE ToggleAt(_, _, _)
ToggleAt(hierarchies, path, state) ==
    LET k == Head(path)
        node == hierarchies[k]
    IN  [hierarchies EXCEPT ![k] =
            IF Len(path) = 1 THEN toggle_with_children(node, state)
            ELSE [node EXCEPT !.children = ToggleAt(node.children, Tail(path), state)]]

\* Message::Loaded(todos_result)
Loaded(todos_result) ==
    IF todos_result.ok
    THEN /\ \E order \in IterationOrders(IdsOfList(todos_result.rows)) :
               app_todos' = app_build_hierarchy(todos_result.rows, order)
         /\ app_state' = "Loaded"
         /\ app_form' = None
    ELSE /\ app_state' = "Errored"
         /\ app_form' = None
         /\ UNCHANGED app_todos

\* Message::TodoToggled(result): nothing is done with an Err
TodoToggled(result) ==
    /\ IF result.ok
       THEN LET found == get_hierarchy_by_id(app_todos, result.id)
            IN  app_todos' = IF found # None
                             THEN ToggleAt(app_todos, found[1], result.done[1])
                             ELSE app_todos
       ELSE UNCHANGED app_todos
    /\ UNCHANGED <<app_state, app_form>>

\* App::new: Loading, no todos, the first load on its way
ClientInit ==
    /\ app_state = "Loading"
    /\ app_form = None
    /\ app_todos = <<>>
    /\ app_msg = AppMsg("none", None)
    /\ net = SetToBag({Sent("load", 0, None)})
    /\ todos = <<>> /\ nextId = 1 /\ deleting = EmptyBag
    /\ lastWrite = Write("none", 0, {}, TRUE, <<>>) /\ resp = NoResp
    /\ lib_in = <<>> /\ lib_out = None
    /\ ab_in = <<>> /\ ab_out1 = None /\ ab_out2 = None
    /\ req = NoReq

Room == BagCardinality(net) < MaxInflight

ClientOnly == UNCHANGED <<serverVars, libVars, abVars, req>>
ClientIdle == ClientOnly /\ UNCHANGED app_msg
ServerOnly == UNCHANGED <<libVars, abVars, appVars, req>>

\* Message::Load, the Refresh button of the Loaded and the Errored view
Load ==
    /\ app_state \in {"Loaded", "Errored"}
    /\ Room
    /\ net' = net (+) SetToBag({Sent("load", 0, None)})
    /\ UNCHANGED <<app_state, app_form, app_todos>>
    /\ ClientIdle

\* Message::LoadScreenAddNewTodo(_, _, None), the Add new button
LoadScreenAddNewTodo ==
    /\ app_state = "Loaded"
    /\ app_state' = "AddingNewTodo"
    /\ app_form' = None
    /\ UNCHANGED <<app_todos, net>>
    /\ ClientIdle

\* Message::GoBackToMain
GoBackToMain ==
    /\ app_state = "AddingNewTodo"
    /\ app_state' = "Loaded"
    /\ app_form' = None
    /\ UNCHANGED <<app_todos, net>>
    /\ ClientIdle

\* Message::SubmitNewTodo(name, description, parent_id), the Submit button
SubmitNewTodo ==
    /\ app_state = "AddingNewTodo"
    /\ Room
    /\ net' = net (+) SetToBag({Sent("submit", 0, app_form)})
    /\ UNCHANGED <<app_state, app_form, app_todos>>
    /\ ClientIdle

\* Message::TodoMessage(id, message), from the view of a node of the forest
TodoMessage(id, message) ==
    /\ get_hierarchy_by_id(app_todos, id) # None
    /\ CASE message = "Done" ->
               /\ Room
               /\ net' = net (+) SetToBag({Sent("toggle", id, None)})
               /\ UNCHANGED <<app_state, app_form>>
         [] message = "Delete" ->
               /\ Room
               /\ net' = net (+) SetToBag({Sent("delete", id, None)})
               /\ UNCHANGED <<app_state, app_form>>
         [] message = "AddChild" ->
               /\ app_state' = "AddingNewTodo"
               /\ app_form' = Some(id)
               /\ UNCHANGED net
    /\ UNCHANGED app_todos
    /\ ClientIdle

ClientTodoMessage ==
    /\ app_state = "Loaded"
    /\ \E id \in IdsOfList(Flatten(app_todos)), message \in {"Done", "Delete", "AddChild"} :
          TodoMessage(id, message)

\* a call comes back and update() handles its message
ClientLoaded ==
    \E m \in BagToSet(net) :
        /\ m.stage = "back" /\ m.kind \in {"load", "delete"}
        /\ Loaded(m)
        /\ app_msg' = AppMsg("Loaded", IF m.ok THEN Some(m.rows) ELSE None)
        /\ net' = net (-) SetToBag({m})
        /\ ClientOnly

ClientSubmittedNewTodo ==
    \E m \in BagToSet(net) :
        /\ m.stage = "back" /\ m.kind = "submit"
        /\ SubmittedNewTodo([ok |-> m.ok, todo |-> IF m.ok THEN m.rows[1] ELSE <<>>])
        /\ app_msg' = AppMsg("SubmittedNewTodo", IF m.ok THEN Some(m.rows[1]) ELSE None)
        /\ net' = net (-) SetToBag({m})
        /\ ClientOnly

ClientTodoToggled ==
    \E m \in BagToSet(net) :
        /\ m.stage = "back" /\ m.kind = "toggle"
        /\ TodoToggled(m)
        /\ app_msg' = AppMsg("TodoToggled", IF m.ok THEN Some(<<m.id, m.done[1]>>) ELSE None)
        /\ net' = net (-) SetToBag({m})
        /\ ClientOnly

\* The handlers serving the client's calls. The client's calls set neither
\* the password parameter nor the auth cookie; what a request carries when it
\* reaches its handler is up to what stands between the two, and both
\* outcomes of the credential check are drawn.
ServeGetTodos ==
    /\ \E m \in BagToSet(net), cr \in Credentials :
          /\ m.stage = "sent" /\ m.kind = "load"
          /\ get_todos(cr[1], cr[2], None, None)
          /\ net' = Replace(net, m, Back(m, resp'))
    /\ ServerOnly

ServeCreateTodo ==
    /\ \E m \in BagToSet(net), cr \in Credentials, n \in Names :
          /\ m.stage = "sent" /\ m.kind = "submit"
          /\ nextId <= MaxClientRows
          /\ create_todo(cr[1], cr[2], n, m.parent_id, None)
          /\ net' = Replace(net, m, Back(m, resp'))
    /\ ServerOnly

ServeToggleTodo ==
    /\ \E m \in BagToSet(net), cr \in Credentials :
          /\ m.stage = "sent" /\ m.kind = "toggle"
          /\ toggle_todo(cr[1], cr[2], m.id)
          /\ net' = Replace(net, m, IF resp'.status = 0
                                    THEN [m EXCEPT !.stage = "handling"]
                                    ELSE Back(m, resp'))
    /\ ServerOnly

ServeDeleteTodo ==
    /\ \E m \in BagToSet(net), cr \in Credentials :
          /\ m.stage = "sent" /\ m.kind = "delete"
          /\ delete_todo(cr[1], cr[2], m.id)
          /\ net' = Replace(net, m, IF resp' = NoResp
                                    THEN [m EXCEPT !.stage = "handling"]
                                    ELSE Back(m, resp'))
    /\ ServerOnly

ServeDeleteTodoDelete ==
    /\ \E h \in BagToSet(deleting) : delete_todo_delete(h)
    /\ UNCHANGED net
    /\ ServerOnly

ServeDeleteTodoFetch ==
    /\ \E h \in BagToSet(deleting), m \in BagToSet(net) :
          /\ m.stage = "handling" /\ m.kind = "delete" /\ m.id = h.id
          /\ delete_todo_fetch(h, None, None)
          /\ net' = Replace(net, m, Back(m, resp'))
    /\ ServerOnly

ClientNext ==
    \/ Load
    \/ LoadScreenAddNewTodo
    \/ GoBackToMain
    \/ SubmitNewTodo
    \/ ClientTodoMessage
    \/ ClientLoaded
    \/ ClientSubmittedNewTodo
    \/ ClientTodoToggled
    \/ ServeGetTodos
    \/ ServeCreateTodo
    \/ ServeToggleTodo
    \/ ServeDeleteTodo
    \/ ServeDeleteTodoDelete
    \/ ServeDeleteTodoFetch

ClientSpec == ClientInit /\ [][ClientNext]_vars

----------------------------------------------------------------------------
(* Claims about the client against the server *)

\* The forest holds exactly the rows of table t, each once, as t has them, a
\* row under the node of its parent_id and a row without parent at the roots.
Mirrors(forest, t) ==
    LET pos == Positions(forest, <<>>)
    IN  /\ Cardinality(pos) = Cardinality(DOMAIN t)
        /\ {q.todo.id : q \in pos} = DOMAIN t
        /\ \A q \in pos :
              /\ q.todo = t[q.todo.id]
              /\ IF Len(q.path) = 1 THEN q.todo.parent_id = None
                 ELSE \E up \in pos :
                         /\ up.path = SubSeq(q.path, 1, Len(q.path) - 1)
                         /\ q.todo.parent_id = Some(up.todo.id)

ShapeOf(forest) == {[path |-> q.path, id |-> q.todo.id] : q \in Positions(forest, <<>>)}

\* The step hands the call m, come back, to update().
Delivers(m) == BagIn(m, net) /\ m.stage = "back" /\ net' = net (-) SetToBag({m})

----------------------------------------------------------------------------
(* The HTTP API request by request: every request with every combination of *)
(* password parameter and auth cookie and, where the handler reads one,     *)
(* every date query over two or more dates; req records what the request    *)
(* carried.                                                                 *)

ApiDates == 1..(MaxDate + 1)
ApiDateOpt == {None} \cup {Some(d) : d \in ApiDates}

ApiGetTodos ==
    /\ \E q \in PwOpt, c \in PwOpt, dl \in ApiDateOpt, dm \in ApiDateOpt :
          /\ get_todos(q, c, dl, dm)
          /\ req' = Request("get_todos", q, c, 0, dl, dm)
    /\ UNCHANGED <<libVars, abVars, appVars, net>>

ApiCreateTodo ==
    /\ \E q \in PwOpt, c \in PwOpt, n \in Names, p \in ParentOpt, d \in ApiDateOpt :
          /\ nextId <= MaxApiRows
          /\ create_todo(q, c, n, p, d)
          /\ req' = Request("create_todo", q, c, 0, None, None)
    /\ UNCHANGED <<libVars, abVars, appVars, net>>

ApiDeleteTodo ==
    /\ \E q \in PwOpt, c \in PwOpt, id \in Ids :
          /\ delete_todo(q, c, id)
          /\ req' = Request("delete_todo", q, c, id, None, None)
    /\ UNCHANGED <<libVars, abVars, appVars, net>>

\* the later steps of a delete_todo that passed the credential check
ApiDeleteTodoDelete ==
    /\ \E h \in BagToSet(deleting) :
          /\ delete_todo_delete(h)
          /\ req' = Request("delete_todo: DELETE", None, None, h.id, None, None)
    /\ UNCHANGED <<libVars, abVars, appVars, net>>

ApiDeleteTodoFetch ==
    /\ \E h \in BagToSet(deleting), dl \in ApiDateOpt, dm \in ApiDateOpt :
          /\ delete_todo_fetch(h, dl, dm)
          /\ req' = Request("delete_todo: fetch", None, None, h.id, dl, dm)
    /\ UNCHANGED <<libVars, abVars, appVars, net>>

ApiToggleTodo ==
    /\ \E q \in PwOpt, c \in PwOpt, id \in Ids :
          /\ toggle_todo(q, c, id)
          /\ req' = Request("toggle_todo", q, c, id, None, None)
    /\ UNCHANGED <<libVars, abVars, appVars, net>>

ApiNext ==
    \/ ApiGetTodos
    \/ ApiCreateTodo
    \/ ApiDeleteTodo
    \/ ApiDeleteTodoDelete
    \/ ApiDeleteTodoFetch
    \/ ApiToggleTodo

ApiSpec == Init /\ [][ApiNext]_vars

----------------------------------------------------------------------------
(* Claims about the HTTP API *)

Endpoints == {"get_todos", "create_todo", "delete_todo", "toggle_todo"}

\* C13: a request to any of the four endpoints that carries the password in
\* the password parameter or in the auth cookie, whatever the other carries,
\* is not answered 401; one that carries it in neither is answered 401 with
\* the authentication message.
C13_Authentication ==
    req.op \in Endpoints =>
        IF req.query = Some(PASSWORD) \/ req.cookies = Some(PASSWORD)
        THEN resp.status # 401
        ELSE resp = Unauthorized(req.op)

\* C14: an authenticated DELETE /todos for an id that is not in the table is
\* answered with the error of the row not found, changes nothing in the table
\* and starts no delete; the answer differs from the one given when the row
\* was found and the DELETE statement then affected no row.
C14_DeleteMissingTarget ==
    [][(/\ req'.op = "delete_todo"
        /\ Authorized(req'.query, req'.cookies)
        /\ req'.id \notin DOMAIN todos) =>
          /\ resp' = internal_error("delete_todo", "RowNotFound")
          /\ resp' # Response("delete_todo", 500, "Could not delete", <<>>, <<>>)
          /\ todos' = todos
          /\ deleting' = deleting]_vars

\* A DELETE /todos for an id that is no longer in the table has just been
\* answered with the row not found, while a handler that found the row and
\* then deleted nothing is about to answer that it could not delete.
C14_Witness ==
    /\ req.op = "delete_todo"
    /\ Authorized(req.query, req.cookies)
    /\ req.id \notin DOMAIN todos
    /\ resp = internal_error("delete_todo", "RowNotFound")
    /\ DOMAIN todos # {}
    /\ \E h \in BagToSet(deleting) :
          h.pc = "fetch" /\ h.id = req.id /\ ~h.delete_successful

\* the date is within the bounds that are given, bounds included
InRange(date, date_less, date_more) ==
    /\ date_less # None => (date # None /\ date[1] <= date_less[1])
    /\ date_more # None => (date # None /\ date[1] >= date_more[1])

\* C15: an authenticated GET /todos returns, by id, exactly the rows whose
\* date is within the bounds given: all rows without bounds, date <= date_less
\* with date_less alone, date >= date_more with date_more alone, and
\* date_more <= date <= date_less with both.
C15_DateRange ==
    (req.op = "get_todos" /\ resp.status = 200) =>
        resp.rows = OrderById({todos[i] : i \in {j \in DOMAIN todos :
                                  InRange(todos[j].date, req.date_less, req.date_more)}})

----------------------------------------------------------------------------
(* Claims about the table's parent_id relation, under Spec *)

C17_AcyclicStore == Acyclic(todos)

\* C20: in every state of the table reached through the API, for every id a
\* toggle can name, the todo_hierarchy recursion of toggle_todo ends: some
\* round joins no row.
C20_ToggleTerminates ==
    \A id \in Ids :
        ToggleHierarchy(todos, {}, JoinChildren(todos, {id}), Cardinality(DOMAIN todos)).ends

----------------------------------------------------------------------------
(* Claims about the client's handling of results, under ClientSpec *)

\* C18: whenever a call of the client (load, submit, toggle, delete) comes
\* back with an Err and update() handles it, App.state is Errored afterwards.
C18_ErrorsSurface ==
    [][\A m \in BagToSet(net) : (Delivers(m) /\ ~m.ok) => app_state' = "Errored"]_vars

\* C19: once no call of the client is in flight, every node of the forest has
\* the done of the row with its id in the store, however the calls were
\* served and their results delivered.
C19_Converges ==
    net = EmptyBag =>
        \A node \in NodesOf(app_todos) :
            node.todo.id \in DOMAIN todos => node.todo.done = todos[node.todo.id].done

====
